---- MODULE Spec2Model ----
(***************************************************************************)
(* A model of spork.rs: the Spork monitor (src/src/lib.rs), its History   *)
(* store and differential accounting (src/src/utils.rs) and the Linux and *)
(* Windows counter sources (src/src/posix.rs, src/src/windows.rs).        *)
(*                                                                         *)
(* A Spork holds RefCell-based history, so it is Send but not Sync: calls *)
(* on one Spork from several threads are serialised by whatever owns it,  *)
(* and every public method is one atomic action taken by a calling thread.*)
(*                                                                         *)
(* Spec is the monitor under every public call.  SpecDeep follows longer   *)
(* behaviours of stats and drop_history alone.  SpecStore is the History  *)
(* store alone, with set_last and clear_last in the two steps of the code.*)
(* SpecPoll takes stats in two steps, split at the OS query between its   *)
(* two reads of the History.  SpecClone is a Spork and its clone.         *)
(* SpecFree applies the functions that take no Spork (the SporkError      *)
(* constructors, get_cpu_time, wtf, safe_unsigned_sub) to bounded inputs. *)
(*                                                                         *)
(* f64 values are modelled as exact rationals plus the three IEEE special *)
(* classes (+inf, -inf, NaN); rounding error is not modelled.             *)
(***************************************************************************)
EXTENDS Integers, Sequences, FiniteSets, TLC

(* ---------------- bounds of the model ---------------- *)

\* threads that call into the monitor are 1..NumThreads
NumThreads == 2
\* now_ms() returns one of the whole seconds 0..MaxTick
MaxTick == 1
\* the number of cores sys_info reports at construction
NumCores == 2
\* the number of calls made on the monitor in one behaviour
MaxOps == 2
\* the number of calls in one behaviour of stats and drop_history alone
MaxDeepOps == 3
\* the number of calls in one behaviour of the History store alone
MaxStoreOps == 3
\* the number of calls in one behaviour of polls taken read by read
MaxPollOps == 3
\* the number of calls in one behaviour of a Spork and its clone
MaxCloneOps == 3

Threads == 1..NumThreads
\* the values now_ms() can return: whole seconds, in milliseconds
Clock == {1000 * i : i \in 0..MaxTick}
StatTypes == {"Process", "Thread", "Children"}
Platforms == {"Linux", "Windows"}

(* ---------------- Option<T> ---------------- *)

None == <<>>
Some(x) == <<x>>
IsSome(o) == Len(o) = 1
Unwrap(o) == o[1]

(* ---------------- f64 ---------------- *)

RECURSIVE Gcd(_, _)
Gcd(a, b) == IF b = 0 THEN a ELSE Gcd(b, a % b)

Abs(x) == IF x < 0 THEN -x ELSE x

NaN == [cls |-> "nan", n |-> 0, d |-> 1]
PosInf == [cls |-> "inf", n |-> 1, d |-> 1]
NegInf == [cls |-> "inf", n |-> -1, d |-> 1]

\* the finite value n/d in lowest terms, d > 0
Fin(n, d) ==
    LET g == Gcd(Abs(n), Abs(d))
        s == IF d < 0 THEN -1 ELSE 1
    IN  [cls |-> "fin", n |-> (s * n) \div g, d |-> (s * d) \div g]

\* an integer `as f64`
F(i) == Fin(i, 1)

IsFinite(x) == x.cls = "fin"
Sign(x) == IF x.n < 0 THEN -1 ELSE IF x.n > 0 THEN 1 ELSE 0

FAdd(a, b) ==
    IF a.cls = "nan" \/ b.cls = "nan" THEN NaN
    ELSE IF a.cls = "inf" /\ b.cls = "inf" THEN (IF a.n = b.n THEN a ELSE NaN)
    ELSE IF a.cls = "inf" THEN a
    ELSE IF b.cls = "inf" THEN b
    ELSE Fin(a.n * b.d + b.n * a.d, a.d * b.d)

FNeg(a) == IF a.cls = "nan" THEN NaN ELSE [a EXCEPT !.n = -a.n]

FSub(a, b) == FAdd(a, FNeg(b))

FMul(a, b) ==
    IF a.cls = "nan" \/ b.cls = "nan" THEN NaN
    ELSE IF a.cls = "inf" \/ b.cls = "inf"
         THEN (IF Sign(a) * Sign(b) = 0 THEN NaN
               ELSE IF Sign(a) * Sign(b) > 0 THEN PosInf ELSE NegInf)
    ELSE Fin(a.n * b.n, a.d * b.d)

\* IEEE division; a zero divisor here is always +0.0 (it comes from a u64)
FDiv(a, b) ==
    IF a.cls = "nan" \/ b.cls = "nan" THEN NaN
    ELSE IF a.cls = "inf" THEN (IF b.cls = "inf" THEN NaN
                                ELSE IF Sign(b) < 0 THEN FNeg(a) ELSE a)
    ELSE IF b.cls = "inf" THEN F(0)
    ELSE IF b.n = 0 THEN (IF a.n = 0 THEN NaN
                          ELSE IF a.n > 0 THEN PosInf ELSE NegInf)
    ELSE Fin(a.n * b.d, a.d * b.n)

\* a < b on f64 (false when either is NaN)
FLess(a, b) ==
    /\ a.cls # "nan" /\ b.cls # "nan"
    /\ IF a.cls = "inf" THEN a.n < 0 /\ ~(b.cls = "inf" /\ b.n < 0)
       ELSE IF b.cls = "inf" THEN b.n > 0
       ELSE a.n * b.d < b.n * a.d

(* ---------------- SporkError (lib.rs) ---------------- *)

SporkErrorKind == {"InvalidStatType", "Unimplemented", "Unknown"}

\* SporkError::new that describes every kind as an unknown error
SporkError_new_one_desc(kind, details) ==
    [desc |-> "Unknown Error", details |-> details, kind |-> kind]

SporkError_new(kind, details) ==
    LET desc == CASE kind = "InvalidStatType" -> "Invalid Stat Type"
                  [] kind = "Unimplemented" -> "Unimplemented"
                  [] kind = "Unknown" -> "Unknown Error"
    IN  [desc |-> desc, details |-> details, kind |-> kind]

SporkError_new_borrowed(kind, details) == SporkError_new(kind, details)

SporkError_unimplemented == SporkError_new("Unimplemented", "")

\* format!("{}: {}", &self.desc, &self.details)
SporkError_to_string(e) == e.desc \o ": " \o e.details

\* Result<T, SporkError>
Ok(v) == [ok |-> TRUE, val |-> Some(v), err |-> None]
Err(e) == [ok |-> FALSE, val |-> None, err |-> Some(e)]

(* ---------------- Stats and History (lib.rs, utils.rs) ---------------- *)

Stats_new_empty(kind) ==
    [kind |-> kind, polled |-> 0, duration |-> 0, cpu_time |-> F(0),
     cpu |-> F(0), memory |-> 0, uptime |-> 0, cores |-> 1]

\* a HashMap is a function whose domain is the set of its keys
EmptyMap == [t \in {} |-> None]
MapInsert(m, k, v) == [x \in (DOMAIN m) \cup {k} |-> IF x = k THEN v ELSE m[x]]
MapRemove(m, k) == [x \in (DOMAIN m) \ {k} |-> m[x]]
MapGet(m, k) == IF k \in DOMAIN m THEN Some(m[k]) ELSE None

History_default == [process |-> None, thread |-> EmptyMap, children |-> EmptyMap]

\* t is get_thread_id() of the calling thread
get_last(h, t, kind) ==
    CASE kind = "Process" -> h.process
      [] kind = "Thread" -> MapGet(h.thread, t)
      [] kind = "Children" -> MapGet(h.children, t)

\* set_last with the thread table replaced instead of updated
set_last_replacing(h, t, kind, poll) ==
    CASE kind = "Process" -> [h EXCEPT !.process = Some(poll)]
      [] kind = "Thread" -> [h EXCEPT !.thread = MapInsert(EmptyMap, t, poll)]
      [] kind = "Children" -> [h EXCEPT !.children = MapInsert(h.children, t, poll)]

\* set_last whose Process arm keeps the sample already stored
set_last_first_wins(h, t, kind, poll) ==
    CASE kind = "Process" -> IF IsSome(h.process) THEN h ELSE [h EXCEPT !.process = Some(poll)]
      [] kind = "Thread" -> [h EXCEPT !.thread = MapInsert(h.thread, t, poll)]
      [] kind = "Children" -> [h EXCEPT !.children = MapInsert(h.children, t, poll)]

\* set_last that keeps the polled time of the sample it overwrites
set_last_merging(h, t, kind, poll) ==
    LET o == get_last(h, t, kind)
        merged == IF IsSome(o) THEN [poll EXCEPT !.polled = Unwrap(o).polled] ELSE poll
    IN  CASE kind = "Process" -> [h EXCEPT !.process = Some(merged)]
          [] kind = "Thread" -> [h EXCEPT !.thread = MapInsert(h.thread, t, merged)]
          [] kind = "Children" -> [h EXCEPT !.children = MapInsert(h.children, t, merged)]

\* the history after set_last; the call returns get_last(h, t, kind)
set_last(h, t, kind, poll) ==
    CASE kind = "Process" -> [h EXCEPT !.process = Some(poll)]
      [] kind = "Thread" -> [h EXCEPT !.thread = MapInsert(h.thread, t, poll)]
      [] kind = "Children" -> [h EXCEPT !.children = MapInsert(h.children, t, poll)]

\* clear_last whose Thread arm removes from the children table
clear_last_wrong_table(h, t, kind) ==
    CASE kind = "Process" -> [h EXCEPT !.process = None]
      [] kind = "Thread" -> [h EXCEPT !.children = MapRemove(h.children, t)]
      [] kind = "Children" -> [h EXCEPT !.children = MapRemove(h.children, t)]

\* clear_last whose Thread arm empties the whole thread table
clear_last_whole_table(h, t, kind) ==
    CASE kind = "Process" -> [h EXCEPT !.process = None]
      [] kind = "Thread" -> [h EXCEPT !.thread = EmptyMap]
      [] kind = "Children" -> [h EXCEPT !.children = MapRemove(h.children, t)]

\* the history after clear_last; the call returns get_last(h, t, kind)
clear_last(h, t, kind) ==
    CASE kind = "Process" -> [h EXCEPT !.process = None]
      [] kind = "Thread" -> [h EXCEPT !.thread = MapRemove(h.thread, t)]
      [] kind = "Children" -> [h EXCEPT !.children = MapRemove(h.children, t)]

\* i64::wrapping_abs; the model's timestamps stay far from i64::MIN
wrapping_abs(x) == IF x < 0 THEN -x ELSE x

safe_unsigned_sub(lhs, rhs) == wrapping_abs(lhs - rhs)

\* 64-bit values as four 16-bit limbs, least significant first; an i64 is its
\* two's complement bit pattern
W64(n) == <<n % 65536, n \div 65536, 0, 0>>

u64_not(a) == <<65535 - a[1], 65535 - a[2], 65535 - a[3], 65535 - a[4]>>

\* addition modulo 2^64
u64_add(a, b) ==
    LET s1 == a[1] + b[1]
        s2 == a[2] + b[2] + s1 \div 65536
        s3 == a[3] + b[3] + s2 \div 65536
        s4 == a[4] + b[4] + s3 \div 65536
    IN  <<s1 % 65536, s2 % 65536, s3 % 65536, s4 % 65536>>

u64_neg(a) == u64_add(u64_not(a), W64(1))

\* subtraction modulo 2^64
u64_sub(a, b) == u64_add(a, u64_neg(b))

u64_less(a, b) ==
    \/ a[4] < b[4]
    \/ a[4] = b[4] /\ a[3] < b[3]
    \/ a[4] = b[4] /\ a[3] = b[3] /\ a[2] < b[2]
    \/ a[4] = b[4] /\ a[3] = b[3] /\ a[2] = b[2] /\ a[1] < b[1]

i64_of(n) == IF n < 0 THEN u64_neg(W64(-n)) ELSE W64(n)

i64_MAX == <<65535, 65535, 65535, 32767>>

i64_MIN == <<0, 0, 0, 32768>>

i64_negative(a) == a[4] >= 32768

i64_less(a, b) ==
    IF i64_negative(a) # i64_negative(b) THEN i64_negative(a) ELSE u64_less(a, b)

\* `lhs - rhs` leaves the range of i64
i64_sub_overflows(lhs, rhs) ==
    /\ i64_negative(lhs) # i64_negative(rhs)
    /\ i64_negative(u64_sub(lhs, rhs)) # i64_negative(lhs)

i64_wrapping_abs(a) == IF i64_negative(a) THEN u64_neg(a) ELSE a

\* safe_unsigned_sub on the whole of i64.  overflow_checks is the build's
\* setting: with it (debug) `lhs - rhs` panics on overflow, without it
\* (release) the difference wraps.
safe_unsigned_sub_wide(lhs, rhs, overflow_checks) ==
    IF overflow_checks /\ i64_sub_overflows(lhs, rhs)
    THEN [panic |-> TRUE, val |-> W64(0)]
    ELSE [panic |-> FALSE, val |-> i64_wrapping_abs(u64_sub(lhs, rhs))]

\* calc_duration that always measures from the start time
calc_duration_from_start(kind, h, t, started_, polled) ==
    safe_unsigned_sub(started_, polled)

calc_duration(kind, h, t, started_, polled) ==
    LET o == get_last(h, t, kind)
        last_ == IF IsSome(o) THEN Unwrap(o).polled ELSE started_
    IN  safe_unsigned_sub(last_, polled)

\* calc_cpu_percent that takes the cumulative time as the delta
calc_cpu_percent_no_prev(h, t, kind, curr_cpu_time, duration) ==
    FMul(FMul(FDiv(curr_cpu_time, F(duration)), F(1000)), F(100))

calc_cpu_percent(h, t, kind, curr_cpu_time, duration) ==
    LET o == get_last(h, t, kind)
        prev_cpu_time == IF IsSome(o) THEN Unwrap(o).cpu_time ELSE F(0)
        cpu_time_delta == FSub(curr_cpu_time, prev_cpu_time)
    IN  FMul(FMul(FDiv(cpu_time_delta, F(duration)), F(1000)), F(100))

(* ---------------- the Linux counter source (posix.rs) ---------------- *)

EFAULT == 14
EINVAL == 22
EPERM == 1

empty_timespec == [tv_sec |-> 0, tv_nsec |-> 0]

empty_timeval == [tv_sec |-> 0, tv_usec |-> 0]

empty_rusage == [ru_utime |-> empty_timeval, ru_stime |-> empty_timeval, ru_maxrss |-> 0]

\* What the kernel answers to one poll: the return codes of clock_gettime and
\* getrusage (0, or -1 with errno set) and the true cumulative user and kernel
\* CPU time of the scope in microseconds.  Readings are not tied to earlier
\* ones: a thread id is reused by an unrelated thread once its owner exits.
CpuReadings == {<<0, 0>>, <<500000, 0>>, <<500000, 500000>>, <<1500000, 500000>>}

PosixOutcomes ==
    {[clk_code |-> 0, ru_code |-> 0, user |-> r[1], kernel |-> r[2], maxrss |-> 3] :
        r \in CpuReadings}
    \cup {[clk_code |-> 0, ru_code |-> -1, user |-> 500000, kernel |-> 500000, maxrss |-> 3],
          [clk_code |-> -1, ru_code |-> 0, user |-> 500000, kernel |-> 500000, maxrss |-> 3]}

\* libc::clock_gettime(CLOCK_THREAD_CPUTIME_ID, &mut times): the thread's
\* user + kernel time; the out-parameter is left alone on failure
clock_gettime(os, times) ==
    IF os.clk_code = 0
    THEN [code |-> 0,
          times |-> [tv_sec |-> (os.user + os.kernel) \div 1000000,
                     tv_nsec |-> ((os.user + os.kernel) % 1000000) * 1000]]
    ELSE [code |-> os.clk_code, times |-> times]

\* libc::getrusage(who, &mut usage); the out-parameter is left alone on failure
getrusage(os, usage) ==
    IF os.ru_code = 0
    THEN [code |-> 0,
          usage |-> [ru_utime |-> [tv_sec |-> os.user \div 1000000, tv_usec |-> os.user % 1000000],
                     ru_stime |-> [tv_sec |-> os.kernel \div 1000000, tv_usec |-> os.kernel % 1000000],
                     ru_maxrss |-> os.maxrss]]
    ELSE [code |-> os.ru_code, usage |-> usage]

map_posix_resp(code) ==
    CASE code = EFAULT -> Err(SporkError_new_borrowed("Unknown", "Invalid timespec address space."))
      [] code = EINVAL -> Err(SporkError_new_borrowed("Unknown", "Invalid clock ID."))
      [] code = EPERM -> Err(SporkError_new_borrowed("Unknown", "Invalid clock permissions."))
      [] OTHER -> Ok(code)

timespec_to_timeval(times) ==
    [tv_sec |-> times.tv_sec, tv_usec |-> times.tv_nsec \div 1000]

posix_get_thread_cpu_time(os) ==
    LET r == clock_gettime(os, empty_timespec)
        m == map_posix_resp(r.code)
    IN  IF m.ok THEN Ok(r.times) ELSE m

posix_get_stats(kind, os) ==
    LET t_times == IF kind = "Thread" THEN posix_get_thread_cpu_time(os) ELSE Ok(empty_timespec)
        r == getrusage(os, empty_rusage)
        m == map_posix_resp(r.code)
    IN  IF ~t_times.ok THEN t_times
        ELSE IF ~m.ok THEN m
        ELSE IF kind = "Thread"
             THEN Ok([r.usage EXCEPT !.ru_utime = timespec_to_timeval(Unwrap(t_times.val))])
             ELSE Ok(r.usage)

posix_get_cpu_time(val) ==
    LET sec == wrapping_abs(val.ru_stime.tv_sec + val.ru_utime.tv_sec)
        usec == wrapping_abs(val.ru_stime.tv_usec + val.ru_utime.tv_usec)
    IN  FAdd(F(sec), FDiv(F(usec), F(1000000)))

(* ---------------- the Windows counter source (windows.rs) ---------------- *)

\* u32 values as two 16-bit limbs, so that wrapping arithmetic is computed
u32(x) == [hi |-> x \div 65536, lo |-> x % 65536]

u32_shl1(a) == [hi |-> (a.hi * 2 + a.lo \div 32768) % 65536, lo |-> (a.lo * 2) % 65536]

u32_shr1(a) == [hi |-> a.hi \div 2, lo |-> a.lo \div 2 + (a.hi % 2) * 32768]

\* `<<` on a u32 by 0..31 bits: the bits shifted out are lost
u32_shl(a, k) ==
    IF k >= 16
    THEN [hi |-> (a.lo * 2^(k - 16)) % 65536, lo |-> 0]
    ELSE [hi |-> (a.hi * 2^k + (a.lo * 2^k) \div 65536) % 65536,
          lo |-> (a.lo * 2^k) % 65536]

u32_add(a, b) ==
    [hi |-> (a.hi + b.hi + (a.lo + b.lo) \div 65536) % 65536, lo |-> (a.lo + b.lo) % 65536]

RECURSIVE u32_mul(_, _)
u32_mul(a, b) ==
    IF b.hi = 0 /\ b.lo = 0 THEN u32(0)
    ELSE u32_add(IF b.lo % 2 = 1 THEN a ELSE u32(0), u32_mul(u32_shl1(a), u32_shr1(b)))

\* `as u64`; the model's readings stay below 2^31
u32_as_u64(a) == a.hi * 65536 + a.lo

empty_filetime == [dwLowDateTime |-> 0, dwHighDateTime |-> 0]

wtf(f) ==
    u32_as_u64(u32_add(u32(f.dwLowDateTime),
                       u32_mul(u32_shl(u32(2), 31), u32(f.dwHighDateTime))))

\* What Windows answers to one poll: the BOOL results of Get{Process,Thread}Times
\* and GetProcessMemoryInfo, GetLastError() after a failure, the kernel and user
\* times in 100 ns units and the peak working set in bytes.  The last outcome
\* is a user time of 2^32 units (about 429.5 s), which sets the high word.
WindowsOutcomes ==
    {[times_result |-> 1, mem_result |-> 1, last_error |-> 0,
      kernel |-> [dwLowDateTime |-> r[2] * 10, dwHighDateTime |-> 0],
      user |-> [dwLowDateTime |-> r[1] * 10, dwHighDateTime |-> 0],
      PeakWorkingSetSize |-> 4096] : r \in CpuReadings}
    \cup {[times_result |-> tr, mem_result |-> 1 - tr, last_error |-> 6,
           kernel |-> [dwLowDateTime |-> 5000000, dwHighDateTime |-> 0],
           user |-> [dwLowDateTime |-> 5000000, dwHighDateTime |-> 0],
           PeakWorkingSetSize |-> 4096] : tr \in {0, 1}}
    \cup {[times_result |-> 1, mem_result |-> 1, last_error |-> 0,
           kernel |-> [dwLowDateTime |-> 0, dwHighDateTime |-> 0],
           user |-> [dwLowDateTime |-> 0, dwHighDateTime |-> 1],
           PeakWorkingSetSize |-> 4096]}

\* format!("Win32Error: {error:x}")
Win32ErrorText(error) ==
    CASE error = 5 -> "Win32Error: 5"
      [] error = 6 -> "Win32Error: 6"
      [] OTHER -> "Win32Error: ?"

get_mem_stats(kind, os) ==
    IF kind = "Children"
    THEN Err(SporkError_new("Unimplemented", "Windows child thread memory stat not yet implemented!"))
    ELSE IF os.mem_result = 0
    THEN Err(SporkError_new("Unknown", Win32ErrorText(os.last_error)))
    ELSE Ok([PeakWorkingSetSize |-> os.PeakWorkingSetSize])

\* get_cpu_times that reports Children scope as a failed OS call
get_cpu_times_children_unknown(kind, os) ==
    IF kind = "Children" \/ os.times_result = 0
    THEN Err(SporkError_new("Unknown", Win32ErrorText(os.last_error)))
    ELSE Ok([creation |-> wtf(empty_filetime), exit |-> wtf(empty_filetime),
             kernel |-> wtf(os.kernel), user |-> wtf(os.user)])

get_cpu_times(kind, os) ==
    IF kind = "Children"
    THEN Err(SporkError_new("Unimplemented", "Windows child thread memory stat not yet implemented!"))
    ELSE IF os.times_result = 0
    THEN Err(SporkError_new("Unknown", Win32ErrorText(os.last_error)))
    ELSE Ok([creation |-> wtf(empty_filetime), exit |-> wtf(empty_filetime),
             kernel |-> wtf(os.kernel), user |-> wtf(os.user)])

combine_cpu_times(val) ==
    LET sec == val.kernel \div 10000000 + val.user \div 10000000
        usec == (val.kernel % 10000000) \div 10 + (val.user % 10000000) \div 10
    IN  FAdd(F(sec), FDiv(F(usec), F(1000000)))

(* ---------------- Spork (lib.rs) ---------------- *)

\* The outcome of one public call: what it returns, the history it leaves,
\* whether it read the wall clock and whether it asked the counter source.
Outcome(ret, h, timed, queried) ==
    [ret |-> ret, history |-> h, timed |-> timed, queried |-> queried]

\* the body shared by stats and stats_with_cpus on Linux, from now_ms() on
poll_linux(h, started_, t, kind, cores, now, os) ==
    LET duration == calc_duration(kind, h, t, started_, now)
        usage == posix_get_stats(kind, os)
    IN  IF ~usage.ok THEN Outcome(usage, h, TRUE, TRUE)
        ELSE LET cpu_time == posix_get_cpu_time(Unwrap(usage.val))
                 cpu_percent == calc_cpu_percent(h, t, kind, cpu_time, duration)
                 stats == [kind |-> kind,
                           polled |-> now,
                           duration |-> duration,
                           cpu_time |-> cpu_time,
                           cpu |-> cpu_percent,
                           memory |-> Unwrap(usage.val).ru_maxrss * 1000,
                           uptime |-> safe_unsigned_sub(now, started_),
                           cores |-> cores]
             IN  Outcome(Ok(stats), set_last(h, t, kind, stats), TRUE, TRUE)

\* poll_linux after its first read of the History: the OS query, the second
\* read (calc_cpu_percent) and the store, with the duration already computed
poll_linux_rest(h, started_, t, kind, cores, now, duration, os) ==
    LET usage == posix_get_stats(kind, os)
    IN  IF ~usage.ok THEN Outcome(usage, h, TRUE, TRUE)
        ELSE LET cpu_time == posix_get_cpu_time(Unwrap(usage.val))
                 cpu_percent == calc_cpu_percent(h, t, kind, cpu_time, duration)
                 stats == [kind |-> kind,
                           polled |-> now,
                           duration |-> duration,
                           cpu_time |-> cpu_time,
                           cpu |-> cpu_percent,
                           memory |-> Unwrap(usage.val).ru_maxrss * 1000,
                           uptime |-> safe_unsigned_sub(now, started_),
                           cores |-> cores]
             IN  Outcome(Ok(stats), set_last(h, t, kind, stats), TRUE, TRUE)

\* poll_windows that stores the sample before the memory query can fail
poll_windows_early_store(h, started_, t, kind, cores, now, os) ==
    LET duration == calc_duration(kind, h, t, started_, now)
        cpu_times == get_cpu_times(kind, os)
        mem == get_mem_stats(kind, os)
    IN  IF ~cpu_times.ok THEN Outcome(cpu_times, h, TRUE, TRUE)
        ELSE LET cpu_time == combine_cpu_times(Unwrap(cpu_times.val))
                 cpu_percent == calc_cpu_percent(h, t, kind, cpu_time, duration)
                 stats == [kind |-> kind,
                           polled |-> now,
                           duration |-> duration,
                           cpu_time |-> cpu_time,
                           cpu |-> cpu_percent,
                           memory |-> IF mem.ok
                                      THEN Unwrap(mem.val).PeakWorkingSetSize \div 1024
                                      ELSE 0,
                           uptime |-> safe_unsigned_sub(now, started_),
                           cores |-> cores]
             IN  IF ~mem.ok THEN Outcome(mem, set_last(h, t, kind, stats), TRUE, TRUE)
                 ELSE Outcome(Ok(stats), set_last(h, t, kind, stats), TRUE, TRUE)

\* the body shared by stats and stats_with_cpus on Windows, from now_ms() on
poll_windows(h, started_, t, kind, cores, now, os) ==
    LET duration == calc_duration(kind, h, t, started_, now)
        cpu_times == get_cpu_times(kind, os)
        mem == get_mem_stats(kind, os)
    IN  IF ~cpu_times.ok THEN Outcome(cpu_times, h, TRUE, TRUE)
        ELSE IF ~mem.ok THEN Outcome(mem, h, TRUE, TRUE)
        ELSE LET cpu_time == combine_cpu_times(Unwrap(cpu_times.val))
                 cpu_percent == calc_cpu_percent(h, t, kind, cpu_time, duration)
                 stats == [kind |-> kind,
                           polled |-> now,
                           duration |-> duration,
                           cpu_time |-> cpu_time,
                           cpu |-> cpu_percent,
                           memory |-> Unwrap(mem.val).PeakWorkingSetSize \div 1024,
                           uptime |-> safe_unsigned_sub(now, started_),
                           cores |-> cores]
             IN  Outcome(Ok(stats), set_last(h, t, kind, stats), TRUE, TRUE)

poll(plat, h, started_, t, kind, cores, now, os) ==
    IF plat = "Linux" THEN poll_linux(h, started_, t, kind, cores, now, os)
    ELSE poll_windows(h, started_, t, kind, cores, now, os)

\* stats that measures from the epoch instead of the monitor's start time
stats_from_epoch(plat, h, started_, t, kind, now, os) ==
    poll(plat, h, 0, t, kind, 1, now, os)

stats(plat, h, started_, t, kind, now, os) ==
    poll(plat, h, started_, t, kind, 1, now, os)

\* the core-count check off by one
invalid_cpu_count_off_by_one(cores, cpus_) == cores > cpus_ + 1

\* `cores > self.cpus`
invalid_cpu_count(cores, cpus_) == cores > cpus_

\* stats_with_cpus that records one core whatever was asked for
stats_with_cpus_one_core(plat, h, started_, cpus_, t, kind, cores, now, os) ==
    LET c == IF IsSome(cores) THEN Unwrap(cores) ELSE cpus_
    IN  IF invalid_cpu_count(c, cpus_)
        THEN Outcome(Err(SporkError_new_borrowed("Unknown", "Invalid CPU count.")),
                     h, FALSE, FALSE)
        ELSE poll(plat, h, started_, t, kind, 1, now, os)

\* stats_with_cpus that measures against a baseline of its own, never against
\* the sample stored under the scope key
stats_with_cpus_own_baseline(plat, h, started_, cpus_, t, kind, cores, now, os) ==
    LET c == IF IsSome(cores) THEN Unwrap(cores) ELSE cpus_
        r == poll(plat, clear_last(h, t, kind), started_, t, kind, c, now, os)
    IN  IF invalid_cpu_count(c, cpus_)
        THEN Outcome(Err(SporkError_new_borrowed("Unknown", "Invalid CPU count.")),
                     h, FALSE, FALSE)
        ELSE IF r.ret.ok THEN r ELSE [r EXCEPT !.history = h]

stats_with_cpus(plat, h, started_, cpus_, t, kind, cores, now, os) ==
    LET c == IF IsSome(cores) THEN Unwrap(cores) ELSE cpus_
    IN  IF invalid_cpu_count(c, cpus_)
        THEN Outcome(Err(SporkError_new_borrowed("Unknown", "Invalid CPU count.")),
                     h, FALSE, FALSE)
        ELSE poll(plat, h, started_, t, kind, c, now, os)

\* drop_history that returns the sample and leaves it stored
drop_history_keeping(h, t, kind) ==
    Outcome([ok |-> TRUE, val |-> get_last(h, t, kind), err |-> None],
            h, FALSE, FALSE)

drop_history(h, t, kind) ==
    Outcome([ok |-> TRUE, val |-> get_last(h, t, kind), err |-> None],
            clear_last(h, t, kind), FALSE, FALSE)

\* read_history that takes the sample out of the store
read_history_taking(h, t, kind) ==
    Outcome([ok |-> TRUE, val |-> get_last(h, t, kind), err |-> None],
            clear_last(h, t, kind), FALSE, FALSE)

read_history(h, t, kind) ==
    Outcome([ok |-> TRUE, val |-> get_last(h, t, kind), err |-> None],
            h, FALSE, FALSE)

(* ---------------- the state machine ---------------- *)

VARIABLES
    platform,   \* Spork.platform
    cpus,       \* Spork.cpus
    started,    \* Spork.started
    history,    \* Spork.history
    last,       \* the most recent call on the monitor, its arguments and result
    polledKeys, \* the scope keys polled successfully since construction
    polls,      \* per thread and kind, the thread's latest successful poll
    sinceDrop,  \* per thread and kind, what followed the thread's drop_history
    pending,    \* per thread, the History call it has begun and not finished
    cloned,     \* the Spork made by Spork::clone, None until there is one
    applied,    \* the latest application of a free function, with its result
    nops        \* the number of calls made so far

vars == <<platform, cpus, started, history, last, polledKeys, polls, sinceDrop,
          pending, cloned, applied, nops>>

\* the scope key of a call: the kind, and the thread id unless Process
ScopeKey(t, kind) == IF kind = "Process" THEN <<kind, 0>> ELSE <<kind, t>>

ScopeKeys == {ScopeKey(t, k) : t \in Threads, k \in StatTypes}

\* what read_history would return for a key
Stored(h, key) ==
    CASE key[1] = "Process" -> h.process
      [] key[1] = "Thread" -> MapGet(h.thread, key[2])
      [] key[1] = "Children" -> MapGet(h.children, key[2])

OsOutcomes(plat) == IF plat = "Linux" THEN PosixOutcomes ELSE WindowsOutcomes

\* the core counts a caller passes to stats_with_cpus
CoreArgs == {None} \cup {Some(c) : c \in 0..(NumCores + 1)}

\* the latest successful poll of a scope key by any thread, None if there is none
LatestPoll(p, key) ==
    LET c == {tk \in DOMAIN p : ScopeKey(tk[1], tk[2]) = key /\ IsSome(p[tk])}
    IN  IF c = {} THEN None
        ELSE p[CHOOSE tk \in c : \A o \in c : Unwrap(p[o]).at <= Unwrap(p[tk]).at]

\* A call and its result.  os is what the counter source answered, when it was
\* asked; sample is the Stats handed to History::set_last; prev is the sample
\* stored under the call's scope key when the call began; own is the calling
\* thread's latest successful poll of the kind and before the latest one of
\* the scope key by any thread; since_drop is "dropped" when the thread's last
\* call of the kind that took effect was drop_history, "overwritten" when
\* another thread has polled the scope key since that drop, "no" otherwise.
Call(op, t, kind, cores, os, sample, prev, out) ==
    [op |-> op, thread |-> t, kind |-> kind, cores |-> cores,
     os |-> IF out.queried THEN Some(os) ELSE None,
     sample |-> sample, prev |-> prev,
     own |-> polls[<<t, kind>>],
     before |-> LatestPoll(polls, ScopeKey(t, kind)),
     since_drop |-> sinceDrop[<<t, kind>>],
     ret |-> out.ret, timed |-> out.timed, queried |-> out.queried]

\* Spork::new()
Init ==
    /\ platform \in Platforms
    /\ cpus = NumCores
    /\ started \in Clock
    /\ history = History_default
    /\ last = [op |-> "new", thread |-> 1, kind |-> "Process", cores |-> None,
               os |-> None, sample |-> None, prev |-> None, own |-> None,
               before |-> None, since_drop |-> "no",
               ret |-> [ok |-> TRUE, val |-> None, err |-> None],
               timed |-> TRUE, queried |-> FALSE]
    /\ polledKeys = {}
    /\ polls = [tk \in Threads \X StatTypes |-> None]
    /\ sinceDrop = [tk \in Threads \X StatTypes |-> "no"]
    /\ pending = [t \in Threads |-> None]
    /\ cloned = None
    /\ applied = [fn |-> "none"]
    /\ nops = 0

\* the state after the bound-th call at most: one whole call of a public method
Step(bound, op, t, kind, cores, os, out) ==
    LET polled == op \in {"stats", "stats_with_cpus"} /\ out.ret.ok
    IN  /\ nops < bound
        /\ nops' = nops + 1
        /\ history' = out.history
        /\ last' = Call(op, t, kind, cores, os, None, get_last(history, t, kind), out)
        /\ polledKeys' = IF polled
                         THEN polledKeys \cup {ScopeKey(t, kind)}
                         ELSE polledKeys
        /\ polls' = IF polled
                    THEN [polls EXCEPT ![<<t, kind>>] =
                             Some([at |-> nops + 1, thread |-> t, os |-> os,
                                   stats |-> Unwrap(out.ret.val)])]
                    ELSE polls
        /\ sinceDrop' =
              [tk \in Threads \X StatTypes |->
                  IF tk = <<t, kind>>
                  THEN (IF op = "drop_history" THEN "dropped"
                        ELSE IF polled THEN "no" ELSE sinceDrop[tk])
                  ELSE IF polled /\ ScopeKey(tk[1], tk[2]) = ScopeKey(t, kind)
                          /\ sinceDrop[tk] = "dropped"
                       THEN "overwritten"
                       ELSE sinceDrop[tk]]
        /\ UNCHANGED <<platform, cpus, started, pending, cloned, applied>>

Record(op, t, kind, cores, os, out) == Step(MaxOps, op, t, kind, cores, os, out)

Stats(t, kind) ==
    \E now \in Clock, os \in OsOutcomes(platform) :
        Record("stats", t, kind, None, os,
               stats(platform, history, started, t, kind, now, os))

StatsWithCpus(t, kind) ==
    \E cores \in CoreArgs, now \in Clock, os \in OsOutcomes(platform) :
        Record("stats_with_cpus", t, kind, cores, os,
               stats_with_cpus(platform, history, started, cpus, t, kind, cores, now, os))

DropHistory(t, kind) ==
    Record("drop_history", t, kind, None, None, drop_history(history, t, kind))

ReadHistory(t, kind) ==
    Record("read_history", t, kind, None, None, read_history(history, t, kind))

Next ==
    \E t \in Threads, kind \in StatTypes :
        \/ Stats(t, kind)
        \/ StatsWithCpus(t, kind)
        \/ DropHistory(t, kind)
        \/ ReadHistory(t, kind)

Spec == Init /\ [][Next]_vars

(* Longer behaviours: MaxDeepOps calls of stats and drop_history, the counter *)
(* source answering without failure with one of two readings.                *)

DeepReadings == {<<500000, 0>>, <<1500000, 500000>>}

DeepOutcomes(plat) ==
    IF plat = "Linux"
    THEN {os \in PosixOutcomes :
            os.clk_code = 0 /\ os.ru_code = 0 /\ <<os.user, os.kernel>> \in DeepReadings}
    ELSE {os \in WindowsOutcomes :
            /\ os.times_result = 1 /\ os.mem_result = 1
            /\ os.user.dwHighDateTime = 0
            /\ <<os.user.dwLowDateTime \div 10, os.kernel.dwLowDateTime \div 10>>
                  \in DeepReadings}

DeepStats(t, kind) ==
    \E now \in Clock, os \in DeepOutcomes(platform) :
        Step(MaxDeepOps, "stats", t, kind, None, os,
             stats(platform, history, started, t, kind, now, os))

DeepDropHistory(t, kind) ==
    Step(MaxDeepOps, "drop_history", t, kind, None, None, drop_history(history, t, kind))

DeepNext ==
    \E t \in Threads, kind \in StatTypes :
        \/ DeepStats(t, kind)
        \/ DeepDropHistory(t, kind)

SpecDeep == Init /\ [][DeepNext]_vars

(* The History store alone: MaxStoreOps calls of set_last, clear_last and    *)
(* get_last (through read_history) by the threads.  set_last and clear_last *)
(* take two steps as in the code: `let last = self.get_last(kind)`, then    *)
(* the write and the return of `last`.                                      *)

\* a History that threads may call into while another thread's call is running
exclusive_shared(p, t) == TRUE

\* The fields of History are RefCells, so History is not Sync and no two
\* threads hold a reference to one History at a time: a thread is inside a
\* History call only while no other thread is.
exclusive(p, t) == \A b \in Threads \ {t} : p[b] = None

\* Stats::new_empty(kind), told apart by the call that made it and its thread
StoreSample(kind, t, tag) ==
    [Stats_new_empty(kind) EXCEPT !.polled = tag, !.memory = t]

StoreSamples ==
    {StoreSample(kind, t, tag) : kind \in StatTypes, t \in Threads, tag \in 1..MaxStoreOps}

StoreInit == Init /\ platform = "Linux" /\ started = 0

StoreBegin(t, op, kind, sample) ==
    /\ nops < MaxStoreOps
    /\ pending[t] = None
    /\ exclusive(pending, t)
    /\ pending' = [pending EXCEPT ![t] =
                      Some([op |-> op, kind |-> kind, sample |-> sample,
                            last |-> get_last(history, t, kind)])]
    /\ UNCHANGED <<platform, cpus, started, history, last, polledKeys, polls,
                   sinceDrop, cloned, applied, nops>>

SetLastBegin(t, kind) ==
    StoreBegin(t, "set_last", kind, Some(StoreSample(kind, t, nops + 1)))

ClearLastBegin(t, kind) == StoreBegin(t, "clear_last", kind, None)

StoreFinish(t) ==
    /\ pending[t] # None
    /\ LET c == Unwrap(pending[t])
           h == IF c.op = "set_last"
                THEN set_last(history, t, c.kind, Unwrap(c.sample))
                ELSE clear_last(history, t, c.kind)
       IN  /\ history' = h
           /\ last' = Call(c.op, t, c.kind, None, None, c.sample,
                           get_last(history, t, c.kind),
                           Outcome([ok |-> TRUE, val |-> c.last, err |-> None],
                                   h, FALSE, FALSE))
    /\ pending' = [pending EXCEPT ![t] = None]
    /\ nops' = nops + 1
    /\ UNCHANGED <<platform, cpus, started, polledKeys, polls, sinceDrop, cloned,
                   applied>>

StoreRead(t, kind) ==
    /\ nops < MaxStoreOps
    /\ pending[t] = None
    /\ exclusive(pending, t)
    /\ LET out == read_history(history, t, kind)
       IN  /\ history' = out.history
           /\ last' = Call("read_history", t, kind, None, None, None,
                           get_last(history, t, kind), out)
    /\ nops' = nops + 1
    /\ UNCHANGED <<platform, cpus, started, polledKeys, polls, sinceDrop, pending,
                   cloned, applied>>

StoreNext ==
    \E t \in Threads :
        \/ \E kind \in StatTypes :
              \/ SetLastBegin(t, kind)
              \/ ClearLastBegin(t, kind)
              \/ StoreRead(t, kind)
        \/ StoreFinish(t)

SpecStore == StoreInit /\ [][StoreNext]_vars

(* The free functions alone: each step applies one of them to arguments    *)
(* drawn from a small set and keeps the arguments and the result.          *)

FreeInit == Init /\ platform = "Linux" /\ started = 0

\* the details strings of the tests and of the monitor's own errors
DetailsStrings == {"", "Foo", "Bar", "Baz", "Invalid CPU count."}

(* ---------------- a Spork and its clone ---------------- *)

\* a clone whose History is the original's own cells
Spork_clone_sharing(h) == [cells |-> "shared", history |-> h]

\* #[derive(Clone)] on Spork and History: the clone's History is made of new
\* RefCells holding clones of the Option and of the two HashMaps
Spork_clone(h) == [cells |-> "own", history |-> h]

\* the History a clone reads and writes, h being the original's
CloneHistory(c, h) == IF c.cells = "own" THEN c.history ELSE h

Instances == {"original", "clone"}

\* the History of an instance
HistoryOf(who) ==
    IF who = "original" THEN history ELSE CloneHistory(Unwrap(cloned), history)

\* what read_history returns on a History, for every thread and kind
Reads(h) == [tk \in Threads \X StatTypes |-> read_history(h, tk[1], tk[2]).ret.val]

CloneInit == Init /\ platform = "Linux" /\ started = 0

\* spork.clone()
Clone ==
    /\ nops < MaxCloneOps
    /\ cloned = None
    /\ cloned' = Some(Spork_clone(history))
    /\ last' = Call("clone", 1, "Process", None, None, None, None,
                    Outcome([ok |-> TRUE, val |-> None, err |-> None],
                            history, FALSE, FALSE))
    /\ nops' = nops + 1
    /\ UNCHANGED <<platform, cpus, started, history, polledKeys, polls, sinceDrop,
                   pending, applied>>

\* one whole call on the original or on the clone, leaving out in the
\* History cells of the instance it was made on
InstanceStep(who, op, t, kind, os, out) ==
    /\ nops < MaxCloneOps
    /\ who = "clone" => cloned # None
    /\ nops' = nops + 1
    /\ last' = Call(IF who = "clone" THEN "clone." \o op ELSE op, t, kind, None, os,
                    None, get_last(HistoryOf(who), t, kind), out)
    /\ IF who = "original"
       THEN history' = out.history /\ cloned' = cloned
       ELSE IF Unwrap(cloned).cells = "own"
            THEN /\ cloned' = Some([Unwrap(cloned) EXCEPT !.history = out.history])
                 /\ history' = history
            ELSE history' = out.history /\ cloned' = cloned
    /\ UNCHANGED <<platform, cpus, started, polledKeys, polls, sinceDrop, pending,
                   applied>>

InstanceStats(who, t, kind) ==
    /\ who = "clone" => cloned # None
    /\ \E now \in Clock, os \in DeepOutcomes(platform) :
          InstanceStep(who, "stats", t, kind, os,
                       stats(platform, HistoryOf(who), started, t, kind, now, os))

InstanceDropHistory(who, t, kind) ==
    /\ who = "clone" => cloned # None
    /\ InstanceStep(who, "drop_history", t, kind, None,
                    drop_history(HistoryOf(who), t, kind))

CloneNext ==
    \/ Clone
    \/ \E who \in Instances, t \in Threads, kind \in StatTypes :
          \/ InstanceStats(who, t, kind)
          \/ InstanceDropHistory(who, t, kind)

SpecClone == CloneInit /\ [][CloneNext]_vars

(* ---------------- one poll, read by read ---------------- *)

PollInit == Init /\ platform = "Linux" /\ started = 0

\* stats up to the OS query: now_ms() and calc_duration, the first read of
\* the History
PollBegin(t, kind) ==
    /\ nops < MaxPollOps
    /\ pending[t] = None
    /\ exclusive(pending, t)
    /\ \E now \in Clock :
          pending' = [pending EXCEPT ![t] =
                         Some([op |-> "stats", kind |-> kind, now |-> now,
                               duration |-> calc_duration(kind, history, t, started, now)])]
    /\ UNCHANGED <<platform, cpus, started, history, last, polledKeys, polls,
                   sinceDrop, cloned, applied, nops>>

\* the rest of stats: the OS query, calc_cpu_percent (the second read) and
\* set_last
PollFinish(t) ==
    /\ pending[t] # None
    /\ \E os \in DeepOutcomes(platform) :
          LET c == Unwrap(pending[t])
              out == poll_linux_rest(history, started, t, c.kind, 1, c.now, c.duration, os)
          IN  /\ history' = out.history
              /\ last' = Call("stats", t, c.kind, None, os, None,
                              get_last(history, t, c.kind), out)
              /\ polls' = IF out.ret.ok
                          THEN [polls EXCEPT ![<<t, c.kind>>] =
                                   Some([at |-> nops + 1, thread |-> t, os |-> os,
                                         stats |-> Unwrap(out.ret.val)])]
                          ELSE polls
    /\ pending' = [pending EXCEPT ![t] = None]
    /\ nops' = nops + 1
    /\ UNCHANGED <<platform, cpus, started, polledKeys, sinceDrop, cloned, applied>>

PollDrop(t, kind) ==
    /\ nops < MaxPollOps
    /\ pending[t] = None
    /\ exclusive(pending, t)
    /\ LET out == drop_history(history, t, kind)
       IN  /\ history' = out.history
           /\ last' = Call("drop_history", t, kind, None, None, None,
                           get_last(history, t, kind), out)
    /\ nops' = nops + 1
    /\ UNCHANGED <<platform, cpus, started, polledKeys, polls, sinceDrop, pending,
                   cloned, applied>>

PollNext ==
    \E t \in Threads :
        \/ \E kind \in StatTypes :
              \/ PollBegin(t, kind)
              \/ PollDrop(t, kind)
        \/ PollFinish(t)

SpecPoll == PollInit /\ [][PollNext]_vars

(* ---------------- free functions ---------------- *)

\* a call of a free function touches nothing of the Spork
FreeFrame ==
    UNCHANGED <<platform, cpus, started, history, last, polledKeys, polls,
                sinceDrop, pending, cloned, nops>>

NewError(kind, details) ==
    /\ applied' = [fn |-> "SporkError::new", kind |-> kind, details |-> details,
                   result |-> SporkError_new(kind, details)]
    /\ FreeFrame

NewBorrowedError(kind, details) ==
    /\ applied' = [fn |-> "SporkError::new_borrowed", kind |-> kind,
                   details |-> details,
                   result |-> SporkError_new_borrowed(kind, details)]
    /\ FreeFrame

UnimplementedError ==
    /\ applied' = [fn |-> "SporkError::unimplemented",
                   result |-> SporkError_unimplemented]
    /\ FreeFrame

\* rusage values whose times have seconds and microseconds of either sign
TimevalInputs ==
    {[tv_sec |-> sec, tv_usec |-> usec] :
        sec \in {-1, 0, 1}, usec \in {-500000, 0, 500000, 750000}}

GetCpuTime(utime, stime) ==
    /\ applied' = [fn |-> "get_cpu_time", utime |-> utime, stime |-> stime,
                   result |-> posix_get_cpu_time(
                       [ru_utime |-> utime, ru_stime |-> stime, ru_maxrss |-> 0])]
    /\ FreeFrame

\* FILETIMEs with and without a high word
FiletimeInputs ==
    {[dwLowDateTime |-> low, dwHighDateTime |-> high] :
        low \in {0, 70000, 5000000}, high \in {0, 1, 2}}

Wtf(f) ==
    /\ applied' = [fn |-> "wtf", f |-> f, result |-> wtf(f)]
    /\ FreeFrame

\* i64 values: those of the tests, the neighbours of 0 and the two ends
I64Inputs == {i64_of(n) : n \in {-50, -1, 0, 1, 50, 100}} \cup {i64_MAX, i64_MIN}

SafeUnsignedSub(lhs, rhs, overflow_checks) ==
    /\ applied' = [fn |-> "safe_unsigned_sub", lhs |-> lhs, rhs |-> rhs,
                   overflow_checks |-> overflow_checks,
                   result |-> safe_unsigned_sub_wide(lhs, rhs, overflow_checks)]
    /\ FreeFrame

FreeNext ==
    \/ \E kind \in SporkErrorKind, details \in DetailsStrings :
          \/ NewError(kind, details)
          \/ NewBorrowedError(kind, details)
    \/ UnimplementedError
    \/ \E utime \in TimevalInputs, stime \in TimevalInputs : GetCpuTime(utime, stime)
    \/ \E f \in FiletimeInputs : Wtf(f)
    \/ \E lhs \in I64Inputs, rhs \in I64Inputs, overflow_checks \in BOOLEAN :
          SafeUnsignedSub(lhs, rhs, overflow_checks)

SpecFree == FreeInit /\ [][FreeNext]_vars

(* ---------------- properties ---------------- *)

PollOps == {"stats", "stats_with_cpus"}

\* the last call was a poll that returned Ok
PolledOk == last.op \in PollOps /\ last.ret.ok

\* the Stats the last call returned
Returned == Unwrap(last.ret.val)

\* C1: read_history returns None for a scope key until a poll of that key has
\* succeeded; right after a successful stats / stats_with_cpus call it returns
\* exactly the Stats that call returned; right after drop_history it returns
\* None, and drop_history itself returned the Stats it removed (None if there
\* was none).
C1_HistoryLifecycle ==
    /\ \A t \in Threads, kind \in StatTypes :
          ScopeKey(t, kind) \notin polledKeys
              => read_history(history, t, kind).ret.val = None
    /\ PolledOk
          => read_history(history, last.thread, last.kind).ret.val = Some(Returned)
    /\ last.op = "drop_history"
          => /\ read_history(history, last.thread, last.kind).ret.val = None
             /\ last.ret.val = last.prev

\* a drop_history that removed the sample an earlier poll had stored
C1_Witness ==
    /\ last.op = "drop_history"
    /\ IsSome(last.prev)
    /\ last.kind = "Thread"
    /\ ScopeKey(last.thread, last.kind) \in polledKeys

\* C2: a successful poll changes only the history entry of its own scope key:
\* the entry of every other key is what it was, and a Thread poll by one
\* thread leaves the duration of any other thread's next Thread poll unchanged.
C2_ScopeIsolation ==
    [][(last'.op \in PollOps /\ last'.ret.ok)
          => /\ \A key \in ScopeKeys \ {ScopeKey(last'.thread, last'.kind)} :
                    Stored(history', key) = Stored(history, key)
             /\ last'.kind = "Thread"
                    => \A b \in Threads \ {last'.thread}, now \in Clock :
                          calc_duration("Thread", history', b, started, now)
                              = calc_duration("Thread", history, b, started, now)]_vars

\* a successful Thread poll made while another thread has a Thread sample stored
C2_Witness ==
    /\ PolledOk
    /\ last.kind = "Thread"
    /\ \E b \in Threads \ {last.thread} :
          /\ IsSome(get_last(history, b, "Thread"))
          /\ Unwrap(get_last(history, b, "Thread")).polled # started

\* C3: a poll that returns an error leaves the whole history as it was.
C3_FailedPollKeepsHistory ==
    [][(last'.op \in PollOps /\ ~last'.ret.ok) => history' = history]_vars

\* a poll that failed in the counter source while a sample was stored for its key
C3_Witness ==
    /\ last.op \in PollOps
    /\ ~last.ret.ok
    /\ last.queried
    /\ IsSome(last.prev)
    /\ history # History_default

\* the cpu_time a poll took as its previous reading
PrevCpuTime == IF IsSome(last.prev) THEN Unwrap(last.prev).cpu_time ELSE F(0)

\* the timestamp a poll measured its duration from
Reference == IF IsSome(last.prev) THEN Unwrap(last.prev).polled ELSE started

\* the number of cores a stats_with_cpus call asked to be considered
RequestedCores == IF IsSome(last.cores) THEN Unwrap(last.cores) ELSE cpus

\* the history with the last call's scope key holding what it held before the call
HistoryBefore ==
    IF IsSome(last.prev)
    THEN set_last(history, last.thread, last.kind, Unwrap(last.prev))
    ELSE clear_last(history, last.thread, last.kind)

\* C4: a poll whose duration is 0 ms returns a finite cpu percentage, never
\* NaN or an infinity.
C4_ZeroDurationIsFinite ==
    (PolledOk /\ Returned.duration = 0) => IsFinite(Returned.cpu)

\* C5: the cpu of stats_with_cpus(kind, Some(N)), 1 <= N <= core count, is the
\* cpu stats(kind) computes from the same previous sample, CPU-time reading
\* and duration, divided by N.  (Stated for polls of non-zero duration; a zero
\* duration is the subject of C4.)
C5_CoreScalingLaw ==
    (PolledOk /\ last.op = "stats_with_cpus" /\ IsSome(last.cores)
        /\ RequestedCores >= 1 /\ Returned.duration # 0)
        => Returned.cpu =
              FDiv(calc_cpu_percent(HistoryBefore, last.thread, last.kind,
                                    Returned.cpu_time, Returned.duration),
                   F(RequestedCores))

\* C6: stats_with_cpus(kind, Some(c)) with c above the core count returns an
\* error without reading the clock or asking the counter source and without
\* touching the history; with None or c within the core count the call is not
\* rejected and goes on to the counter source.
C6_CoreCountValidation ==
    [][last'.op = "stats_with_cpus"
          => IF IsSome(last'.cores) /\ Unwrap(last'.cores) > cpus
             THEN /\ ~last'.ret.ok
                  /\ ~last'.queried
                  /\ ~last'.timed
                  /\ history' = history
             ELSE /\ last'.queried
                  /\ last'.ret.ok \/ Unwrap(last'.ret.err).details # "Invalid CPU count."]_vars

\* a call asking for one core more than detected, made after a sample was stored
C6_Witness ==
    /\ last.op = "stats_with_cpus"
    /\ last.cores = Some(cpus + 1)
    /\ ~last.ret.ok
    /\ IsSome(last.prev)

\* the kinds the counter sources report a failed OS call with
PlatformFailureKinds ==
    {Unwrap(map_posix_resp(code).err).kind : code \in {EFAULT, EINVAL, EPERM}}
    \cup {Unwrap(get_cpu_times("Process", os).err).kind :
            os \in {o \in WindowsOutcomes : o.times_result = 0}}
    \cup {Unwrap(get_mem_stats("Process", os).err).kind :
            os \in {o \in WindowsOutcomes : o.mem_result = 0}}

\* the kinds used for operations a platform does not support
UnsupportedKinds ==
    {Unwrap(get_cpu_times("Children", os).err).kind : os \in WindowsOutcomes}

\* C7: the error for a core count above the detected one has a kind of its
\* own, different from the kind of a failed OS call and from the kind of an
\* unsupported operation.
C7_InvalidArgumentKind ==
    (last.op = "stats_with_cpus" /\ IsSome(last.cores) /\ Unwrap(last.cores) > cpus)
        => /\ ~last.ret.ok
           /\ Unwrap(last.ret.err).kind \notin PlatformFailureKinds \cup UnsupportedKinds

\* C8: when the previous sample's cpu_time is above the current reading the
\* poll reports 0 percent, and no poll reports a negative cpu.  (Stated for
\* polls of non-zero duration; a zero duration is the subject of C4.)
C8_NonNegativeCpu ==
    (PolledOk /\ Returned.duration # 0)
        => /\ FLess(Returned.cpu_time, PrevCpuTime) => Returned.cpu = F(0)
           /\ ~FLess(Returned.cpu, F(0))

\* C9: with one core and a non-zero duration,
\* cpu = (cpu_time_now - cpu_time_prev) / (duration_ms / 1000) * 100, where
\* cpu_time_prev is that of the sample stored under the scope key, or 0; over
\* 1000 ms a delta of 1 s gives 100 and a delta of 0.5 s gives 50.
C9_PercentFormula ==
    (PolledOk /\ Returned.cores = 1 /\ Returned.duration # 0)
        => LET delta == FSub(Returned.cpu_time, PrevCpuTime)
           IN  /\ Returned.cpu =
                     FMul(FDiv(delta, FDiv(F(Returned.duration), F(1000))), F(100))
               /\ (Returned.duration = 1000 /\ delta = F(1)) => Returned.cpu = F(100)
               /\ (Returned.duration = 1000 /\ delta = Fin(1, 2)) => Returned.cpu = F(50)

\* a one-core poll over 1000 ms against a stored sample, the delta being 0.5 s
C9_Witness ==
    /\ PolledOk
    /\ last.op = "stats"
    /\ IsSome(last.prev)
    /\ Returned.duration = 1000
    /\ PrevCpuTime = Fin(1, 2)
    /\ Returned.cpu_time = F(1)
    /\ Returned.cpu = F(50)

\* C10: the duration of a poll is the distance between its timestamp and the
\* polled time of the sample stored under its scope key, or the start time
\* when none is stored, whichever of the two is the larger.
C10_Duration ==
    PolledOk
        => /\ Returned.duration =
                 (IF Returned.polled >= Reference
                  THEN Returned.polled - Reference
                  ELSE Reference - Returned.polled)
           /\ Returned.duration = safe_unsigned_sub(Returned.polled, Reference)

\* a poll whose timestamp is earlier than the polled time of the stored sample,
\* which differs from the start time
C10_Witness ==
    /\ PolledOk
    /\ IsSome(last.prev)
    /\ Returned.polled < Reference
    /\ Reference # started
    /\ Returned.duration = 1000

\* the key of the one history entry all threads share for Process scope
ProcessKey == ScopeKey(1, "Process")

\* C11: threads polling Process scope share one history entry: while an entry
\* is stored it is the sample of the latest Process poll by any thread, and a
\* Process poll measures its duration from that sample, whichever thread
\* stored it, not from the calling thread's own previous poll.
C11_SharedProcessEntry ==
    /\ IsSome(history.process)
          => history.process = Some(Unwrap(LatestPoll(polls, ProcessKey)).stats)
    /\ (PolledOk /\ last.kind = "Process")
          => /\ history.process = Some(Returned)
             /\ IsSome(last.prev)
                   => /\ last.prev = Some(Unwrap(last.before).stats)
                      /\ Returned.duration =
                            safe_unsigned_sub(Returned.polled,
                                              Unwrap(last.before).stats.polled)

\* a Process poll by a thread that polled Process before, made after another
\* thread's Process poll taken at a different time
C11_Witness ==
    /\ PolledOk
    /\ last.kind = "Process"
    /\ IsSome(last.prev)
    /\ IsSome(last.own)
    /\ Unwrap(last.before).thread # last.thread
    /\ Unwrap(last.own).stats.polled # Unwrap(last.before).stats.polled
    /\ Returned.duration
          # safe_unsigned_sub(Returned.polled, Unwrap(last.own).stats.polled)

\* the last call, a successful poll, behaved like the first poll of its scope
FirstPollLike ==
    /\ Returned.duration = safe_unsigned_sub(Returned.polled, started)
    /\ Returned.duration = Returned.uptime
    /\ Returned.cpu = calc_cpu_percent(History_default, last.thread, last.kind,
                                       Returned.cpu_time, Returned.duration)

C13_SetLastReplaces ==
    last.op = "set_last"
        => /\ last.ret.val = last.prev
           /\ get_last(history, last.thread, last.kind) = last.sample
           /\ Stored(history, ScopeKey(last.thread, last.kind)) = last.sample

\* a set_last over a stored sample that differs from the new one
C13_Witness ==
    /\ last.op = "set_last"
    /\ IsSome(last.prev)
    /\ last.prev # last.sample
    /\ Unwrap(last.prev).polled # Unwrap(last.sample).polled
    /\ last.ret.val = last.prev

\* C14: History calls are atomic with respect to each other: every stored
\* sample is one that was handed to set_last as a whole, and the value a
\* set_last or clear_last returns is exactly the value its write replaces or
\* removes, so that no sample is returned by two calls or lost unreturned.
C14_StoreCallsAtomic ==
    /\ \A key \in ScopeKeys :
          IsSome(Stored(history, key)) => Unwrap(Stored(history, key)) \in StoreSamples
    /\ \A t \in Threads :
          IsSome(pending[t])
              => Unwrap(pending[t]).last = get_last(history, t, Unwrap(pending[t]).kind)
    /\ last.op \in {"set_last", "clear_last"} => last.ret.val = last.prev

\* a set_last on the shared Process entry that replaced the other thread's
\* sample, the other thread having then begun a clear_last of the entry
C14_Witness ==
    /\ last.op = "set_last"
    /\ last.kind = "Process"
    /\ IsSome(last.prev)
    /\ \E t \in Threads \ {last.thread} :
          /\ IsSome(pending[t])
          /\ Unwrap(pending[t]).op = "clear_last"
          /\ Unwrap(pending[t]).kind = "Process"
          /\ Unwrap(pending[t]).last = last.sample
          /\ Unwrap(last.prev).memory = t

\* C15: read_history (get_last) leaves the History store exactly as it was,
\* for every kind and every content of the store, and returns the sample
\* stored under the caller's scope key.
C15_ReadKeepsStore ==
    [][last'.op = "read_history"
          => /\ history' = history
             /\ last'.ret.val = Stored(history, ScopeKey(last'.thread, last'.kind))]_vars

\* a read of a stored sample while another key holds a sample too
C15_Witness ==
    /\ last.op = "read_history"
    /\ IsSome(last.ret.val)
    /\ \E key \in ScopeKeys \ {ScopeKey(last.thread, last.kind)} :
          IsSome(Stored(history, key))

\* C16: a scope key that holds a sample keeps holding one across every call
\* that is not a drop_history of that key: polls that succeed or fail,
\* rejected stats_with_cpus calls, reads, and polls or drops of other keys.
C16_StaysPolled ==
    [][\A key \in ScopeKeys :
          (/\ key \in polledKeys
           /\ IsSome(Stored(history, key))
           /\ ~(last'.op = "drop_history" /\ ScopeKey(last'.thread, last'.kind) = key))
              => IsSome(Stored(history', key))]_vars

\* a Thread key still holding its sample after another thread dropped its own
\* Thread history
C16_Witness ==
    /\ last.op = "drop_history"
    /\ last.kind = "Thread"
    /\ \E t \in Threads \ {last.thread} :
          /\ ScopeKey(t, "Thread") \in polledKeys
          /\ IsSome(read_history(history, t, "Thread").ret.val)

\* C17: a Stats returned by stats(kind) has cores = 1 and the kind asked for;
\* one returned by stats_with_cpus(kind, None) has the monitor's core count
\* and by stats_with_cpus(kind, Some(c)) has cores = c.
C17_CoresAndKind ==
    PolledOk
        => /\ Returned.kind = last.kind
           /\ last.op = "stats" => Returned.cores = 1
           /\ (last.op = "stats_with_cpus" /\ last.cores = None) => Returned.cores = cpus
           /\ (last.op = "stats_with_cpus" /\ IsSome(last.cores))
                 => Returned.cores = Unwrap(last.cores)

\* a stats_with_cpus(kind, None) that returned the monitor's core count, not 1
C17_Witness ==
    /\ PolledOk
    /\ last.op = "stats_with_cpus"
    /\ last.cores = None
    /\ Returned.cores = NumCores
    /\ Returned.cores # 1
    /\ Returned.kind = "Thread"

\* the counter source's OS query for a poll of the kind reported failure
OsFailed(plat, kind, os) ==
    IF plat = "Linux"
    THEN os.ru_code # 0 \/ (kind = "Thread" /\ os.clk_code # 0)
    ELSE os.times_result = 0 \/ os.mem_result = 0

\* a FILETIME is the 64-bit count dwHighDateTime * 2^32 + dwLowDateTime
FiletimeLeq(a, b) ==
    \/ a.dwHighDateTime < b.dwHighDateTime
    \/ a.dwHighDateTime = b.dwHighDateTime /\ a.dwLowDateTime <= b.dwLowDateTime

\* neither the user nor the kernel time the OS reported went down from a to b
NotDecreased(plat, a, b) ==
    IF plat = "Linux"
    THEN a.user <= b.user /\ a.kernel <= b.kernel
    ELSE FiletimeLeq(a.user, b.user) /\ FiletimeLeq(a.kernel, b.kernel)

\* C18: over successful polls of one scope, cpu_time never goes down as long
\* as the user and kernel times the OS reports never go down.
C18_CpuTimeMonotone ==
    (/\ PolledOk
     /\ IsSome(last.before)
     /\ ~OsFailed(platform, last.kind, Unwrap(last.os))
     /\ ~OsFailed(platform, last.kind, Unwrap(last.before).os)
     /\ NotDecreased(platform, Unwrap(last.before).os, Unwrap(last.os)))
        => ~FLess(Returned.cpu_time, Unwrap(last.before).stats.cpu_time)

\* C19: when getrusage or clock_gettime reports failure the poll returns an
\* error, never Ok with a Stats built from zero-filled counters.
C19_OsFailurePropagates ==
    (/\ platform = "Linux"
     /\ last.op \in PollOps
     /\ last.queried
     /\ OsFailed(platform, last.kind, Unwrap(last.os)))
        => ~last.ret.ok

\* the last call was a Children poll answered with an Unimplemented error
ChildrenUnimplemented ==
    /\ ~last.ret.ok
    /\ Unwrap(last.ret.err).kind = "Unimplemented"
    /\ read_history(history, last.thread, "Children").ret.val = None

\* C20 as stated: on Windows a Children poll by stats or stats_with_cpus
\* always returns an error of kind Unimplemented and stores no sample.
C20_WindowsChildren ==
    platform = "Windows"
        => /\ history.children = EmptyMap
           /\ (last.op \in PollOps /\ last.kind = "Children") => ChildrenUnimplemented

\* C20, amended: the same for stats and for stats_with_cpus with a core count
\* the monitor accepts; a core count above the monitor's is rejected first.
C20_WindowsChildrenAccepted ==
    platform = "Windows"
        => /\ history.children = EmptyMap
           /\ (/\ last.op \in PollOps
               /\ last.kind = "Children"
               /\ ~(IsSome(last.cores) /\ invalid_cpu_count(Unwrap(last.cores), cpus)))
                 => ChildrenUnimplemented

\* a Children poll through stats_with_cpus on Windows, made with an accepted
\* core count after a Process sample was stored
C20_Witness ==
    /\ platform = "Windows"
    /\ last.op = "stats_with_cpus"
    /\ last.kind = "Children"
    /\ last.cores = Some(NumCores)
    /\ last.queried
    /\ ~last.ret.ok
    /\ IsSome(history.process)

KindDescription(kind) ==
    CASE kind = "InvalidStatType" -> "Invalid Stat Type"
      [] kind = "Unimplemented" -> "Unimplemented"
      [] kind = "Unknown" -> "Unknown Error"

\* C22: an error built by SporkError::new or new_borrowed from kind k and
\* details d has kind() = k and details() = d, and to_string() is the kind's
\* description, ': ' and d; SporkError::unimplemented() has kind
\* Unimplemented and empty details.
C22_SporkError ==
    /\ (applied.fn = "SporkError::new" \/ applied.fn = "SporkError::new_borrowed")
          => /\ applied.result.kind = applied.kind
             /\ applied.result.details = applied.details
             /\ SporkError_to_string(applied.result)
                   = KindDescription(applied.kind) \o ": " \o applied.details
             /\ (applied.kind = "InvalidStatType" /\ applied.details = "Foo")
                   => SporkError_to_string(applied.result) = "Invalid Stat Type: Foo"
    /\ applied.fn = "SporkError::unimplemented"
          => /\ applied.result.kind = "Unimplemented"
             /\ applied.result.details = ""

\* the error of should_create_invalid_stat_errors
C22_Witness ==
    /\ applied.fn = "SporkError::new_borrowed"
    /\ applied.kind = "InvalidStatType"
    /\ applied.details = "Foo"
    /\ SporkError_to_string(applied.result) = "Invalid Stat Type: Foo"

\* C23: get_cpu_time returns the absolute value of the summed user and kernel
\* time, |(user.sec + kernel.sec) + (user.usec + kernel.usec) / 1,000,000|,
\* for every combination of the four fields, and never a negative value.
C23_CpuTimeAbsolute ==
    applied.fn = "get_cpu_time"
        => LET sec == applied.utime.tv_sec + applied.stime.tv_sec
               usec == applied.utime.tv_usec + applied.stime.tv_usec
           IN  /\ applied.result = Fin(Abs(sec * 1000000 + usec), 1000000)
               /\ ~FLess(applied.result, F(0))

\* C24: for Thread scope the returned cpu_time is the thread's user time plus
\* its kernel time, each counted exactly once (the thread CPU clock put in
\* the place of the user time already holds both).
C24_ThreadTimeOnce ==
    (/\ platform = "Linux"
     /\ PolledOk
     /\ last.kind = "Thread"
     /\ ~OsFailed(platform, last.kind, Unwrap(last.os)))
        => Returned.cpu_time
              = Fin(Unwrap(last.os).user + Unwrap(last.os).kernel, 1000000)

\* the low and the high 32 bits of a value below 2^63
Low32(x) == (x % 65536) + ((x \div 65536) % 65536) * 65536

High32(x) == (x \div 65536) \div 65536

\* C25: the FILETIME conversion returns low + high * 2^32 for every pair of
\* halves, a non-zero high half is not dropped, and the result never goes
\* down when the FILETIME goes up.
C25_FiletimeConversion ==
    applied.fn = "wtf"
        => /\ Low32(applied.result) = applied.f.dwLowDateTime
           /\ High32(applied.result) = applied.f.dwHighDateTime
           /\ \A g \in FiletimeInputs :
                 FiletimeLeq(g, applied.f) => wtf(g) <= applied.result

\* |lhs - rhs| as a u64: the larger minus the smaller, which always fits
AbsDifference(lhs, rhs) ==
    IF i64_less(lhs, rhs) THEN u64_sub(rhs, lhs) ELSE u64_sub(lhs, rhs)

\* C26: safe_unsigned_sub returns |lhs - rhs| as a u64 for every pair of i64
\* values, those whose difference does not fit in an i64 included, without
\* overflow or panic, and gives the same result with the arguments swapped.
C26_SafeUnsignedSub ==
    applied.fn = "safe_unsigned_sub"
        => /\ ~applied.result.panic
           /\ applied.result.val = AbsDifference(applied.lhs, applied.rhs)
           /\ applied.result
                 = safe_unsigned_sub_wide(applied.rhs, applied.lhs, applied.overflow_checks)

\* C27: within one poll the duration and the CPU delta are computed against
\* the same previous sample, the one the scope key held when the poll ended,
\* whatever other polls and drops of the key the poll is interleaved with.
C27_OneReference ==
    PolledOk
        => /\ Returned.duration
                 = calc_duration(last.kind, HistoryBefore, last.thread, started,
                                 Returned.polled)
           /\ Returned.cpu
                 = calc_cpu_percent(HistoryBefore, last.thread, last.kind,
                                    Returned.cpu_time, Returned.duration)

\* a poll of Process scope measured against a sample another thread stored,
\* while the other thread has begun its next poll of the scope
C27_Witness ==
    /\ PolledOk
    /\ last.kind = "Process"
    /\ IsSome(last.before)
    /\ Unwrap(last.before).thread # last.thread
    /\ last.prev = Some(Unwrap(last.before).stats)
    /\ Returned.duration = 1000
    /\ \E b \in Threads \ {last.thread} :
          pending[b] # None /\ Unwrap(pending[b]).kind = "Process"

\* C28: cloning a Spork gives the clone a History of its own holding a copy
\* of the original's samples; afterwards no poll or drop on the clone changes
\* what read_history returns on the original, and none on the original
\* changes what it returns on the clone, Process scope included.
C28_CloneIsolated ==
    [][/\ (cloned = None /\ cloned' # None)
            => /\ Reads(CloneHistory(Unwrap(cloned'), history')) = Reads(history)
               /\ Reads(history') = Reads(history)
       /\ (cloned # None /\ last'.op \in {"clone.stats", "clone.drop_history"})
            => Reads(history') = Reads(history)
       /\ (cloned # None /\ last'.op \in {"stats", "drop_history"})
            => Reads(CloneHistory(Unwrap(cloned'), history'))
                  = Reads(CloneHistory(Unwrap(cloned), history))]_vars

\* the clone has polled Process scope after the original did, and the two
\* hold different Process samples
C28_Witness ==
    /\ cloned # None
    /\ last.op = "clone.stats"
    /\ last.kind = "Process"
    /\ last.ret.ok
    /\ IsSome(last.prev)
    /\ history.process = last.prev
    /\ CloneHistory(Unwrap(cloned), history).process = last.ret.val
    /\ last.ret.val # last.prev

\* C29: every Stats returned or stored has a cores value between 1 and the
\* monitor's core count; stats_with_cpus(kind, Some(0)) neither returns nor
\* stores cores = 0.
C29_CoresInRange ==
    /\ PolledOk => (1 <= Returned.cores /\ Returned.cores <= cpus)
    /\ \A key \in ScopeKeys :
          IsSome(Stored(history, key))
              => /\ 1 <= Unwrap(Stored(history, key)).cores
                 /\ Unwrap(Stored(history, key)).cores <= cpus

\* C30: stats and stats_with_cpus share one baseline per scope key whatever
\* the core count: a successful poll measures its duration and its CPU delta
\* from the sample stored by the most recent successful poll of the key, by
\* either operation, and leaves its own sample in that place.
C30_SharedBaseline ==
    PolledOk
        => /\ IsSome(last.prev)
                 => /\ IsSome(last.before)
                    /\ last.prev = Some(Unwrap(last.before).stats)
           /\ (IsSome(last.before) /\ Unwrap(last.before).at = nops - 1)
                 => IsSome(last.prev)
           /\ Returned.duration
                 = calc_duration(last.kind, HistoryBefore, last.thread, started,
                                 Returned.polled)
           /\ Returned.cpu
                 = calc_cpu_percent(HistoryBefore, last.thread, last.kind,
                                    Returned.cpu_time, Returned.duration)
           /\ read_history(history, last.thread, last.kind).ret.val = Some(Returned)

\* a stats call measured from a sample that stats_with_cpus stored for two
\* cores one second earlier
C30_Witness ==
    /\ PolledOk
    /\ last.op = "stats"
    /\ IsSome(last.before)
    /\ Unwrap(last.before).stats.cores = 2
    /\ last.prev = Some(Unwrap(last.before).stats)
    /\ Returned.cores = 1
    /\ Returned.duration = 1000
    /\ Returned.polled = Unwrap(last.prev).polled + 1000

====
